---- MODULE Spec2Model ----
(***************************************************************************)
(* A model of wordpress-audit: the SSRF-guarded construction of a Scanner  *)
(* (src/src/scanner.rs, build_internal / validate_host / is_internal_ip),  *)
(* the sequential scan (Scanner::scan and its detectors) and the status    *)
(* classification of the Analyzer (src/src/analyze.rs).                    *)
(*                                                                         *)
(* Strings the code inspects character by character (hosts, version        *)
(* tokens) are sequences of one-character strings.  An Option<T> is        *)
(* [some |-> FALSE] or [some |-> TRUE, v |-> x].                           *)
(***************************************************************************)
EXTENDS Integers, Sequences, FiniteSets, TLC

VARIABLES
    pc,                 \* position of the program (per specification)
    raw,                \* the url argument handed to Scanner::new / builder
    allow_private,      \* ScannerBuilder.allow_private
    dnsAnswer,          \* what the system resolver answers for host:port
    clientOk,           \* whether reqwest's Client::builder().build() succeeds
    built,              \* the result of build_internal
    requests,           \* every HTTP request issued so far, in order
    scan,               \* the locals of Scanner::scan and its final result
    analysis,           \* the Analysis computed by Analyzer::analyze
    ip,                 \* the address handed to is_internal_ip
    verdict,            \* the value is_internal_ip returned
    args,               \* the arguments handed to a function called alone
    out                 \* what that function returned

vars == <<pc, raw, allow_private, dnsAnswer, clientOk, built, requests, scan,
          analysis, ip, verdict, args, out>>

(***************************************************************************)
(* Bounds of the model.                                                    *)
(***************************************************************************)
\* Longest list of addresses a DNS answer holds.
MaxAddrs == 2

(***************************************************************************)
(* Options and strings.                                                    *)
(***************************************************************************)
None == [some |-> FALSE]
Some(x) == [some |-> TRUE, v |-> x]

\* str::ends_with
EndsWith(s, suffix) ==
    /\ Len(s) >= Len(suffix)
    /\ SubSeq(s, Len(s) - Len(suffix) + 1, Len(s)) = suffix

\* str::starts_with
StartsWith(s, prefix) ==
    /\ Len(s) >= Len(prefix)
    /\ SubSeq(s, 1, Len(prefix)) = prefix

Localhost == <<"l", "o", "c", "a", "l", "h", "o", "s", "t">>
DotLocalhost == <<".">> \o Localhost

(***************************************************************************)
(* Scanner::is_internal_ip.  An IPv4 address is [v |-> 4, o |-> octets],   *)
(* an IPv6 address [v |-> 6, s |-> the eight 16-bit segments].             *)
(***************************************************************************)
V4(a, b, c, d) == [v |-> 4, o |-> <<a, b, c, d>>]
V6(segs) == [v |-> 6, s |-> segs]

\* Ipv4Addr::is_loopback: 127.0.0.0/8
ipv4_is_loopback(o) == o[1] = 127

\* Ipv4Addr::is_private: 10.0.0.0/8, 172.16.0.0/12, 192.168.0.0/16
ipv4_is_private(o) ==
    \/ o[1] = 10
    \/ o[1] = 172 /\ o[2] >= 16 /\ o[2] <= 31
    \/ o[1] = 192 /\ o[2] = 168

\* Ipv4Addr::is_link_local: 169.254.0.0/16
ipv4_is_link_local(o) == o[1] = 169 /\ o[2] = 254

\* Ipv4Addr::is_broadcast: 255.255.255.255
ipv4_is_broadcast(o) == o = <<255, 255, 255, 255>>

\* Ipv4Addr::is_unspecified: 0.0.0.0
ipv4_is_unspecified(o) == o = <<0, 0, 0, 0>>

\* ipv4.octets()[..2] == [192, 0]: the first two octets only
ipv4_is_doc_range(o) == SubSeq(o, 1, 2) = <<192, 0>>

\* Ipv6Addr::is_loopback (::1) and is_unspecified (::)
ipv6_is_loopback(s) == s = <<0, 0, 0, 0, 0, 0, 0, 1>>
ipv6_is_unspecified(s) == s = <<0, 0, 0, 0, 0, 0, 0, 0>>

\* x & mask, for a mask that clears the low bits below `low` (a power of two)
MaskHigh(x, low) == x - (x % low)

is_internal_ip(a) ==
    IF a.v = 4
    THEN \/ ipv4_is_loopback(a.o)
         \/ ipv4_is_private(a.o)
         \/ ipv4_is_link_local(a.o)
         \/ ipv4_is_broadcast(a.o)
         \/ ipv4_is_unspecified(a.o)
         \/ a.o[1] = 100 /\ a.o[2] >= 64 /\ a.o[2] <= 127
         \/ a.o = <<169, 254, 169, 254>>
         \/ ipv4_is_doc_range(a.o)
    ELSE \/ ipv6_is_loopback(a.s)
         \/ ipv6_is_unspecified(a.s)
         \/ MaskHigh(a.s[1], 512) = 64512       \* & 0xfe00 == 0xfc00
         \/ MaskHigh(a.s[1], 64) = 65152        \* & 0xffc0 == 0xfe80

(***************************************************************************)
(* Addresses the model classifies: every combination of octets around the  *)
(* edges of the ranges above, and IPv6 addresses around the edges of       *)
(* fc00::/7 and fe80::/10.                                                 *)
(***************************************************************************)
Octet1 == {0, 8, 10, 93, 100, 127, 169, 172, 192, 255}
Octet2 == {0, 1, 15, 16, 31, 32, 63, 64, 127, 128, 168, 184, 254, 255}
Octet3 == {0, 1, 2, 78, 169, 216, 255}
Octet4 == {0, 1, 9, 34, 254, 255}
Seg1 == {0, 8193, 64511, 64512, 64768, 65023, 65024, 65151, 65152, 65215,
         65216, 65535}
SegLast == {0, 1, 2}

SampleV4 == {V4(a, b, c, d) : a \in Octet1, b \in Octet2, c \in Octet3, d \in Octet4}
SampleV6 ==
    {V6(<<h, 0, 0, 0, 0, 0, 0, l>>) : h \in Seg1, l \in SegLast}
      \cup {V6(<<0, 0, 0, 0, 0, 65535, 32512, 1>>)}   \* ::ffff:127.0.0.1
SampleIps == SampleV4 \cup SampleV6

(***************************************************************************)
(* Scanner::build_internal and Scanner::validate_host.                     *)
(*                                                                         *)
(* The url argument is [wellFormed, sep, scheme, host, port, path]: sep    *)
(* says whether the text contains "://", wellFormed whether Url::parse     *)
(* accepts the text once it carries a scheme.  host is an Option of a      *)
(* character sequence (Url::host_str), port an Option (Url::port).         *)
(***************************************************************************)
\* Mutant of ALLOWED_SCHEMES: ftp is let through.
ALLOWED_SCHEMES_with_ftp == {"http", "https", "ftp"}

ALLOWED_SCHEMES == {"http", "https"}

Ok(x) == [ok |-> TRUE, v |-> x]
Err(kind, why) == [ok |-> FALSE, kind |-> kind, why |-> why]

\* Auto-add https:// if no scheme provided
url_with_scheme(u) ==
    IF ~u.sep THEN [u EXCEPT !.sep = TRUE, !.scheme = "https"] ELSE u

\* Url::parse(..).map_err(|e| Error::InvalidUrl(..))
Url_parse(u) ==
    IF u.wellFormed
    THEN Ok([scheme |-> u.scheme, host |-> u.host, port |-> u.port,
             path |-> u.path])
    ELSE Err("InvalidUrl", "parse")

\* Mutant of first_internal: only the first resolved address is examined.
first_internal_head_only(addrs) ==
    IF addrs # <<>> /\ is_internal_ip(Head(addrs)) THEN Some(Head(addrs)) ELSE None

\* for addr in addrs { if is_internal_ip(addr.ip()) { return Err } }
RECURSIVE first_internal(_)
first_internal(addrs) ==
    IF addrs = <<>> THEN None
    ELSE IF is_internal_ip(Head(addrs)) THEN Some(Head(addrs))
    ELSE first_internal(Tail(addrs))

\* Mutant of host_is_localhost: subdomains of localhost are let through.
host_is_localhost_exact(host) == host = Localhost

\* host == "localhost" || host.ends_with(".localhost")
host_is_localhost(host) == host = Localhost \/ EndsWith(host, DotLocalhost)

\* The result carries, beside Ok(()) or the error, the DNS query made (if any).
validate_host(url, dns) ==
    IF ~url.host.some
    THEN [res |-> Err("InvalidUrl", "missing host"), query |-> None]
    ELSE IF host_is_localhost(url.host.v)
    THEN [res |-> Err("InvalidUrl", "localhost not allowed"), query |-> None]
    ELSE
      LET port == IF url.port.some THEN url.port.v
                  ELSE IF url.scheme = "https" THEN 443 ELSE 80
          socket_addr == [host |-> url.host.v, port |-> port]
          hit == IF dns.ok THEN first_internal(dns.v) ELSE None
      IN  [res |-> IF hit.some
                   THEN Err("InvalidUrl", "internal/private IP address not allowed")
                   ELSE Ok(<<>>),
           query |-> Some(socket_addr)]

\* Mutant of host_validation: the allow_private flag is ignored.
host_validation_always(allow, url, dns) ==
    [res |-> validate_host(url, dns).res,
     query |-> validate_host(url, dns).query, ran |-> TRUE]

\* if !allow_private { Self::validate_host(&base_url)?; }
host_validation(allow, url, dns) ==
    IF allow THEN [res |-> Ok(<<>>), query |-> None, ran |-> FALSE]
    ELSE [res |-> validate_host(url, dns).res,
          query |-> validate_host(url, dns).query, ran |-> TRUE]

\* The result carries the Scanner (its base_url) or the error, and what
\* validate_host did: hostChecked says whether it ran at all.
build_internal(url, allow, dns, client_ok) ==
    LET parsed == Url_parse(url_with_scheme(url))
    IN
    IF ~parsed.ok
    THEN [res |-> parsed, hostChecked |-> FALSE, query |-> None]
    ELSE IF parsed.v.scheme \notin ALLOWED_SCHEMES
    THEN [res |-> Err("InvalidUrl", "scheme not allowed"),
          hostChecked |-> FALSE, query |-> None]
    ELSE
      LET checked == host_validation(allow, parsed.v, dns)
      IN
      IF ~checked.res.ok
      THEN [res |-> checked.res, hostChecked |-> checked.ran,
            query |-> checked.query]
      ELSE IF ~client_ok
      THEN [res |-> Err("HttpClient", "client"), hostChecked |-> checked.ran,
            query |-> checked.query]
      ELSE [res |-> Ok([base_url |-> parsed.v]), hostChecked |-> checked.ran,
            query |-> checked.query]

(***************************************************************************)
(* Inputs of the construction.                                             *)
(***************************************************************************)
Ch(c) == <<c>>
Hosts ==
    { Localhost,                               \* localhost
      Ch("a") \o DotLocalhost,                 \* a.localhost
      Ch("a") \o Localhost,                    \* alocalhost
      Localhost \o Ch("."),                    \* localhost.
      Localhost \o <<".", "a">>,               \* localhost.a
      <<"a", ".", "b">> }                      \* a.b

NoPort == None
Ports == {None, Some(8080)}

RawUrls ==
    { [wellFormed |-> FALSE, sep |-> FALSE, scheme |-> "", host |-> None,
       port |-> None, path |-> "/"] }
    \cup { [wellFormed |-> TRUE, sep |-> TRUE, scheme |-> s, host |-> Some(h),
            port |-> p, path |-> "/"] :
              s \in {"http", "https", "ftp"}, h \in Hosts, p \in Ports }
    \cup { [wellFormed |-> TRUE, sep |-> TRUE, scheme |-> "file", host |-> None,
            port |-> None, path |-> "/etc/passwd"] }
    \cup { [wellFormed |-> TRUE, sep |-> FALSE, scheme |-> "", host |-> Some(h),
            port |-> p, path |-> "/"] : h \in Hosts, p \in Ports }

\* Addresses a DNS answer may hold.
DnsIps ==
    { V4(8, 8, 8, 8), V4(93, 184, 216, 34), V4(10, 0, 0, 1), V4(127, 0, 0, 1),
      V6(<<0, 0, 0, 0, 0, 0, 0, 1>>), V6(<<8193, 0, 0, 0, 0, 0, 0, 1>>) }

SeqsUpTo(S, n) == UNION { [1..k -> S] : k \in 1..n }

\* to_socket_addrs(): an error, or a non-empty list of addresses
DnsAnswers == { [ok |-> FALSE] } \cup { Ok(a) : a \in SeqsUpTo(DnsIps, MaxAddrs) }

NotBuilt == [res |-> Err("none", ""), hostChecked |-> FALSE, query |-> None]
NoScan == [state |-> "none"]
NoAnalysis == [state |-> "none"]
NoIp == V4(0, 0, 0, 0)
NoArgs == [fn |-> "none"]
NoOut == [fn |-> "none"]

(***************************************************************************)
(* Scanner::new / ScannerBuilder::build: the whole of build_internal.      *)
(***************************************************************************)
Build ==
    /\ pc = "new"
    /\ built' = build_internal(raw, allow_private, dnsAnswer, clientOk)
    /\ pc' = IF built'.res.ok THEN "homepage" ELSE "rejected"
    /\ UNCHANGED <<raw, allow_private, dnsAnswer, clientOk, requests, scan,
                   analysis, ip, verdict,
                   args, out>>

InitBuild ==
    /\ pc = "new"
    /\ args = NoArgs
    /\ out = NoOut
    /\ raw \in RawUrls
    /\ allow_private \in BOOLEAN
    /\ dnsAnswer \in DnsAnswers
    /\ clientOk \in BOOLEAN
    /\ built = NotBuilt
    /\ requests = <<>>
    /\ scan = NoScan
    /\ analysis = NoAnalysis
    /\ ip = NoIp
    /\ verdict = FALSE

NextBuild == Build

SpecBuild == InitBuild /\ [][NextBuild]_vars

(***************************************************************************)
(* is_internal_ip on its own: one address in, one verdict out.             *)
(***************************************************************************)
Classify ==
    /\ pc = "ip"
    /\ verdict' = is_internal_ip(ip)
    /\ pc' = "classified"
    /\ UNCHANGED <<raw, allow_private, dnsAnswer, clientOk, built, requests,
                   scan, analysis, ip, args, out>>

InitIp ==
    /\ pc = "ip"
    /\ args = NoArgs
    /\ out = NoOut
    /\ ip \in SampleIps
    /\ verdict = FALSE
    /\ raw = CHOOSE u \in RawUrls : ~u.wellFormed
    /\ allow_private = FALSE
    /\ dnsAnswer = [ok |-> FALSE]
    /\ clientOk = TRUE
    /\ built = NotBuilt
    /\ requests = <<>>
    /\ scan = NoScan
    /\ analysis = NoAnalysis

NextIp == Classify

SpecIp == InitIp /\ [][NextIp]_vars

(***************************************************************************)
(* Characters and version tokens.                                          *)
(***************************************************************************)
Str3(a, b, c) == <<a, b, c>>

DigitChars == <<"0", "1", "2", "3", "4", "5", "6", "7", "8", "9">>
Digits == {DigitChars[i] : i \in DOMAIN DigitChars}
Lower == {"a", "b", "c", "d", "e", "f", "g", "h", "i", "j", "k", "l", "m",
          "n", "o", "p", "q", "r", "s", "t", "u", "v", "w", "x", "y", "z"}
Upper == {"A", "B", "C", "D", "E", "F", "G", "H", "I", "J", "K", "L", "M",
          "N", "O", "P", "Q", "R", "S", "T", "U", "V", "W", "X", "Y", "Z"}

\* char::is_ascii_digit, is_ascii_alphabetic, is_ascii_hexdigit
is_ascii_digit(c) == c \in Digits
is_ascii_alphabetic(c) == c \in Lower \cup Upper
\* Mutant of is_ascii_hexdigit: upper-case digits are not hexadecimal.
is_ascii_hexdigit_lower(c) == c \in Digits \cup {"a", "b", "c", "d", "e", "f"}

is_ascii_hexdigit(c) ==
    c \in Digits \cup {"a", "b", "c", "d", "e", "f", "A", "B", "C", "D", "E", "F"}

All(s, P(_)) == \A i \in DOMAIN s : P(s[i])

DigitVal(c) == (CHOOSE i \in DOMAIN DigitChars : DigitChars[i] = c) - 1

\* str::trim, on the space character
RECURSIVE TrimStart(_)
TrimStart(s) == IF s # <<>> /\ Head(s) = " " THEN TrimStart(Tail(s)) ELSE s
RECURSIVE TrimEnd(_)
TrimEnd(s) ==
    IF s # <<>> /\ s[Len(s)] = " " THEN TrimEnd(SubSeq(s, 1, Len(s) - 1)) ELSE s
Trim(s) == TrimEnd(TrimStart(s))

\* str::contains
Contains(s, sub) ==
    \E i \in 0..(Len(s) - Len(sub)) : SubSeq(s, i + 1, i + Len(sub)) = sub

(***************************************************************************)
(* Scanner::normalize_version.                                             *)
(***************************************************************************)
TimestampOpen == <<"(", "t", "i", "m", "e", "s", "t", "a", "m", "p", ":">>
HashOpen == <<"(", "h", "a", "s", "h", ":">>

\* Mutant of normalize_version: a hash is abbreviated without the marker.
normalize_version_bare_hash(version) ==
    IF /\ Len(version) = 10
       /\ All(version, is_ascii_digit)
       /\ version # <<>> /\ Head(version) \in {"1", "2"}
    THEN TimestampOpen \o version \o <<")">>
    ELSE IF /\ Len(version) >= 7
            /\ All(version, is_ascii_hexdigit)
            /\ ~All(version, is_ascii_digit)
    THEN <<"a">> \o SubSeq(version, 1, 7)
    ELSE version

normalize_version(version) ==
    IF /\ Len(version) = 10
       /\ All(version, is_ascii_digit)
       /\ version # <<>> /\ Head(version) \in {"1", "2"}
    THEN TimestampOpen \o version \o <<")">>
    ELSE IF /\ (Len(version) = 40 \/ Len(version) >= 7)
            /\ All(version, is_ascii_hexdigit)
            /\ ~All(version, is_ascii_digit)
    THEN LET short == IF Len(version) > 7 THEN SubSeq(version, 1, 7) ELSE version
         IN  HashOpen \o short \o <<")">>
    ELSE version

(***************************************************************************)
(* compare_versions (src/src/analyze.rs).  Orderings are "Less", "Equal",  *)
(* "Greater".  Segment values of the tokens of this model stay far below   *)
(* 2^31, so no segment overflows u64.                                      *)
(***************************************************************************)
\* Mutant of suffix_pos: only '-' opens a suffix.
suffix_pos_dash_only(v) ==
    LET hits == {i \in DOMAIN v : v[i] = "-"}
    IN  IF hits = {} THEN 0 ELSE CHOOSE i \in hits : \A j \in hits : i <= j

\* v.find(|c| c == '-' || c.is_ascii_alphabetic()): the index, from 1, or 0
suffix_pos(v) ==
    LET hits == {i \in DOMAIN v : v[i] = "-" \/ is_ascii_alphabetic(v[i])}
    IN  IF hits = {} THEN 0 ELSE CHOOSE i \in hits : \A j \in hits : i <= j

\* str::split('.'): the segments between the dots, empty ones included
RECURSIVE split_dot(_)
split_dot(s) ==
    LET dots == {i \in DOMAIN s : s[i] = "."}
    IN  IF dots = {} THEN <<s>>
        ELSE LET d == CHOOSE i \in dots : \A j \in dots : i <= j
             IN  <<SubSeq(s, 1, d - 1)>> \o split_dot(SubSeq(s, d + 1, Len(s)))

\* the value of a run of digits
RECURSIVE digits_value(_)
digits_value(s) ==
    IF s = <<>> THEN 0
    ELSE 10 * digits_value(SubSeq(s, 1, Len(s) - 1)) + DigitVal(s[Len(s)])

\* leading zeros removed
RECURSIVE strip_zeros(_)
strip_zeros(s) ==
    IF s # <<>> /\ Head(s) = "0" THEN strip_zeros(Tail(s)) ELSE s

\* u64::MAX has 20 decimal digits
U64Digits == 20

\* p.parse::<u64>().ok(): digits, after an optional '+'; a value that does
\* not fit u64 is an error.  The tokens of this model have at most 9 or more
\* than 20 significant digits, so the fit is decided by the digit count.
parse_u64(p) ==
    LET body == IF p # <<>> /\ Head(p) = "+" THEN Tail(p) ELSE p
    IN  IF body # <<>> /\ All(body, is_ascii_digit)
             /\ Len(strip_zeros(body)) <= U64Digits
        THEN Some(digits_value(strip_zeros(body))) ELSE None

\* filter_map(|p| p.parse().ok()).collect()
RECURSIVE parse_parts(_)
parse_parts(segs) ==
    IF segs = <<>> THEN <<>>
    ELSE LET n == parse_u64(Head(segs))
         IN  (IF n.some THEN <<n.v>> ELSE <<>>) \o parse_parts(Tail(segs))

\* Mutant of parse_version: the suffix is not recorded.
parse_version_no_suffix(v) ==
    LET pos == suffix_pos(v)
        version_part == IF pos > 0 THEN SubSeq(v, 1, pos - 1) ELSE v
    IN  [parts |-> parse_parts(split_dot(version_part)), has_suffix |-> FALSE]

parse_version(v) ==
    LET pos == suffix_pos(v)
        version_part == IF pos > 0 THEN SubSeq(v, 1, pos - 1) ELSE v
    IN  [parts |-> parse_parts(split_dot(version_part)), has_suffix |-> pos > 0]

\* Mutant of part_or_zero: the shorter sequence is padded with ones.
part_or_one(parts, i) == IF i <= Len(parts) THEN parts[i] ELSE 1

\* current_parts.get(i).copied().unwrap_or(0)
part_or_zero(parts, i) == IF i <= Len(parts) THEN parts[i] ELSE 0

Max(a, b) == IF a >= b THEN a ELSE b

\* Mutant of compare_versions: numeric ties go to the side without a suffix,
\* whatever the other side carries.
compare_versions_tie_to_current(current, latest) ==
    LET c == parse_version(current)
        l == parse_version(latest)
        max_len == Max(Len(c.parts), Len(l.parts))
        diff == {i \in 1..max_len : part_or_zero(c.parts, i) # part_or_zero(l.parts, i)}
    IN  IF diff # {}
        THEN LET i == CHOOSE k \in diff : \A j \in diff : k <= j
             IN  IF part_or_zero(c.parts, i) < part_or_zero(l.parts, i)
                 THEN "Less" ELSE "Greater"
        ELSE IF ~c.has_suffix THEN "Greater" ELSE "Less"

compare_versions(current, latest) ==
    LET c == parse_version(current)
        l == parse_version(latest)
        max_len == Max(Len(c.parts), Len(l.parts))
        diff == {i \in 1..max_len : part_or_zero(c.parts, i) # part_or_zero(l.parts, i)}
    IN  IF diff # {}
        THEN LET i == CHOOSE k \in diff : \A j \in diff : k <= j
             IN  IF part_or_zero(c.parts, i) < part_or_zero(l.parts, i)
                 THEN "Less" ELSE "Greater"
        ELSE IF ~c.has_suffix /\ l.has_suffix THEN "Greater"
        ELSE IF c.has_suffix /\ ~l.has_suffix THEN "Less"
        ELSE "Equal"

(***************************************************************************)
(* ComponentAnalysis and the Analyzer (src/src/analyze.rs).                *)
(***************************************************************************)
UNKNOWN_VERSION == <<"-">>

unwrap_or_unknown(opt) == IF opt.some THEN opt.v ELSE UNKNOWN_VERSION

ComponentAnalysis_new(component_type, name, version, latest_version) ==
    LET version_str == unwrap_or_unknown(version)
        latest_str == unwrap_or_unknown(latest_version)
        status == IF version_str = UNKNOWN_VERSION THEN "Unknown"
                  ELSE IF latest_str = UNKNOWN_VERSION THEN "Ok"
                  ELSE IF compare_versions(version_str, latest_str) = "Less"
                       THEN "Outdated"
                       ELSE "Ok"
    IN  [component_type |-> component_type, name |-> name,
         version |-> version_str, latest_version |-> latest_str,
         status |-> status]

ComponentAnalysis_not_detected(component_type, name) ==
    [component_type |-> component_type, name |-> name,
     version |-> UNKNOWN_VERSION, latest_version |-> UNKNOWN_VERSION,
     status |-> "NotDetected"]

\* Mutant of analyze_wordpress: presence without a version is not detected.
analyze_wordpress_version_only(r) ==
    IF r.wordpress_version.some
    THEN ComponentAnalysis_new("Core", "WordPress", r.wordpress_version,
                               r.wordpress_latest)
    ELSE ComponentAnalysis_not_detected("Core", "WordPress")

analyze_wordpress(r) ==
    IF r.wordpress_version.some
    THEN ComponentAnalysis_new("Core", "WordPress", r.wordpress_version,
                               r.wordpress_latest)
    ELSE IF r.wordpress_detected
    THEN ComponentAnalysis_new("Core", "WordPress", None, r.wordpress_latest)
    ELSE ComponentAnalysis_not_detected("Core", "WordPress")

analyze_theme(r) ==
    IF r.theme.some
    THEN ComponentAnalysis_new("Theme", r.theme.v.slug, r.theme.v.version,
                               r.theme.v.latest_version)
    ELSE ComponentAnalysis_not_detected("Theme", "-")

\* Mutant of analyze_plugins: plugins with no installed version are left out.
analyze_plugins_versioned_only(r) ==
    LET slugs == {r.plugins[i].slug : i \in {j \in DOMAIN r.plugins : r.plugins[j].version.some}}
    IN  [sl \in slugs |->
           ComponentAnalysis_new("Plugin", sl, Some(<<"1">>), None)]

\* The HashMap slug -> ComponentAnalysis collected from the plugin list: a
\* later entry of the list replaces an earlier one with the same slug.
analyze_plugins(r) ==
    LET slugs == {r.plugins[i].slug : i \in DOMAIN r.plugins}
        last(sl) == CHOOSE i \in DOMAIN r.plugins :
                       /\ r.plugins[i].slug = sl
                       /\ \A j \in DOMAIN r.plugins :
                            r.plugins[j].slug = sl => j <= i
    IN  [sl \in slugs |->
           ComponentAnalysis_new("Plugin", sl, r.plugins[last(sl)].version,
                                 r.plugins[last(sl)].latest_version)]

analyze(r) ==
    [state |-> "done", url |-> r.url, wordpress |-> analyze_wordpress(r),
     theme |-> analyze_theme(r), plugins |-> analyze_plugins(r)]

\* Analysis::is_wordpress
is_wordpress(a) == a.wordpress.status # "NotDetected"

\* Analysis::outdated_count
outdated_count(a) ==
    LET core_outdated == IF a.wordpress.status = "Outdated" THEN 1 ELSE 0
        theme_outdated == IF a.theme.status = "Outdated" THEN 1 ELSE 0
        plugins_outdated ==
            Cardinality({sl \in DOMAIN a.plugins : a.plugins[sl].status = "Outdated"})
    IN  core_outdated + theme_outdated + plugins_outdated

\* Analysis::plugin_count: self.plugins.len()
plugin_count(a) == Cardinality(DOMAIN a.plugins)

(***************************************************************************)
(* The HTTP side of the scan.                                              *)
(*                                                                         *)
(* A response to a GET is [send |-> FALSE] (the transport failed) or       *)
(* [send |-> TRUE, status |-> code, body |-> Option]: body is None when    *)
(* reading or decoding the body fails.  What the regex, HTML and JSON      *)
(* libraries extract from a body is part of the body's model: a homepage   *)
(* is the list of its generator meta contents, its stylesheet links, the   *)
(* first theme path of its text and its plugin path occurrences.           *)
(***************************************************************************)
WP_JSON_PATH == "/wp-json/"
WP_FEED_PATH == "/feed/"
WP_README_PATH == "/readme.html"
\* Mutant of SKIP_PLUGIN_SLUGS: only "index" is skipped.
SKIP_PLUGIN_SLUGS_index_only == {"index"}

SKIP_PLUGIN_SLUGS == {"index", "cache"}

WordPressWord == <<"W", "o", "r", "d", "P", "r", "e", "s", "s">>
WordPressPrefix == WordPressWord \o <<" ">>
WP_COOKIE_PREFIXES == { <<"w", "o", "r", "d", "p", "r", "e", "s", "s", "_">>,
                        <<"w", "p", "-">> }
WP_LANG_COOKIE == <<"w", "p", "_", "l", "a", "n", "g">>
WpNamespace == <<"w", "p", "/">>

\* StatusCode::is_success
is_success(code) == code >= 200 /\ code <= 299

\* Mutant of fetch_page: the status of the response is not looked at.
fetch_page_any_status(resp) ==
    IF ~resp.send THEN Err("HttpRequest", "send")
    ELSE IF ~resp.body.some THEN Err("HttpRequest", "body")
    ELSE Ok(resp.body.v)

\* Scanner::fetch_page
fetch_page(resp) ==
    IF ~resp.send THEN Err("HttpRequest", "send")
    ELSE IF ~is_success(resp.status) THEN Err("HttpStatus", resp.status)
    ELSE IF ~resp.body.some THEN Err("HttpRequest", "body")
    ELSE Ok(resp.body.v)

\* Url::join with one of the absolute paths above
url_join(base, path) == [base EXCEPT !.path = path]

TargetRequest(url) == [to |-> "target", url |-> url]
CatalogRequest(endpoint, slug) ==
    [to |-> "catalog", endpoint |-> endpoint, slug |-> slug]

\* Scanner::detect_version_from_meta, over the content attributes of the
\* meta[name='generator'] elements in document order
RECURSIVE detect_version_from_meta(_)
detect_version_from_meta(generators) ==
    IF generators = <<>> THEN None
    ELSE LET content == Head(generators)
         IN  IF content.some /\ StartsWith(content.v, WordPressWord)
             THEN IF ~StartsWith(content.v, WordPressPrefix)
                  THEN None       \* strip_prefix("WordPress ")? leaves the function
                  ELSE LET version ==
                             Trim(SubSeq(content.v, Len(WordPressPrefix) + 1,
                                         Len(content.v)))
                       IN  IF version # <<>> THEN Some(version)
                           ELSE detect_version_from_meta(Tail(generators))
             ELSE detect_version_from_meta(Tail(generators))

\* Scanner::detect_version_from_feed / detect_version_from_readme: the first
\* capture of the pattern in the fetched text, if the fetch succeeds
detect_version_from_page(resp) ==
    IF fetch_page(resp).ok THEN fetch_page(resp).v.capture ELSE None

\* Scanner::detect_wp_from_rest_api; TRUE stands for Some(())
detect_wp_from_rest_api(resp) ==
    /\ resp.send
    /\ is_success(resp.status)
    /\ resp.body.some
    /\ \/ /\ resp.body.v.namespaces.some
          /\ \E i \in DOMAIN resp.body.v.namespaces.v :
               StartsWith(resp.body.v.namespaces.v[i], WpNamespace)
       \/ resp.body.v.name.some
       \/ resp.body.v.url.some

\* The name of the cookie a Set-Cookie header sets: the text before its
\* first '='; a header without '=' sets no cookie.
cookie_name(header) ==
    LET eqs == {i \in DOMAIN header : header[i] = "="}
    IN  IF eqs = {} THEN None
        ELSE Some(SubSeq(header, 1, (CHOOSE i \in eqs : \A j \in eqs : i <= j) - 1))

is_wp_cookie(name) ==
    \/ \E p \in WP_COOKIE_PREFIXES : StartsWith(name, p)
    \/ name = WP_LANG_COOKIE

\* Scanner::detect_wp_from_cookies; resp.headers are the Set-Cookie headers
\* of the response in order; the status is not looked at.
detect_wp_from_cookies(resp) ==
    /\ resp.send
    /\ \/ \E i \in DOMAIN resp.headers :
            /\ cookie_name(resp.headers[i]).some
            /\ is_wp_cookie(cookie_name(resp.headers[i]).v)
       \/ /\ resp.headers # <<>>
          /\ \E p \in WP_COOKIE_PREFIXES : Contains(resp.headers[1], p)

\* Scanner::fetch_wp_latest_version: offers.first()
fetch_wp_latest_version(resp) ==
    IF resp.send /\ resp.body.some /\ resp.body.v.offers # <<>>
    THEN Some(Head(resp.body.v.offers)) ELSE None

\* Scanner::fetch_plugin_latest_version / fetch_theme_latest_version
fetch_info_latest_version(resp) ==
    IF resp.send /\ resp.body.some THEN resp.body.v.version ELSE None

\* Scanner::extract_theme_from_url: href is [theme, ver], what the theme
\* path pattern and the text after "ver=" give on the href
extract_theme_from_url(href) ==
    IF ~href.theme.some THEN None
    ELSE Some([slug |-> href.theme.v,
               version |-> IF href.ver.some
                           THEN Some(normalize_version(href.ver.v)) ELSE None,
               latest_version |-> None])

\* Scanner::detect_theme before its catalog call: the first stylesheet link
\* whose href names a theme, else the first theme path of the whole text
RECURSIVE first_stylesheet_theme(_)
first_stylesheet_theme(links) ==
    IF links = <<>> THEN None
    ELSE IF Head(links).some /\ extract_theme_from_url(Head(links).v).some
    THEN extract_theme_from_url(Head(links).v)
    ELSE first_stylesheet_theme(Tail(links))

detect_theme_slug(document) ==
    IF first_stylesheet_theme(document.stylesheets).some
    THEN first_stylesheet_theme(document.stylesheets)
    ELSE IF document.raw_theme.some
    THEN Some([slug |-> document.raw_theme.v, version |-> None,
               latest_version |-> None])
    ELSE None

\* Scanner::detect_plugins, the HashSet of slugs
plugin_slugs(document) ==
    {document.plugin_refs[i].slug : i \in DOMAIN document.plugin_refs}
        \ SKIP_PLUGIN_SLUGS

\* Scanner::find_plugin_version: the first occurrence of the slug's path
\* that carries a ver= parameter
find_plugin_version(document, slug) ==
    LET hits == {i \in DOMAIN document.plugin_refs :
                   /\ document.plugin_refs[i].slug = slug
                   /\ document.plugin_refs[i].ver.some}
    IN  IF hits = {} THEN None
        ELSE Some(normalize_version(
               document.plugin_refs[CHOOSE i \in hits : \A j \in hits : i <= j].ver.v))

(***************************************************************************)
(* What the target site and the catalog may answer.                        *)
(***************************************************************************)
V64 == Str3("6", ".", "4")
V65 == Str3("6", ".", "5")
V12 == Str3("1", ".", "2")
VDash == <<"-">>
VHash == <<"5", "6", "9", "a", "b", "5", "6", "6">>

Href(theme, ver) == [theme |-> theme, ver |-> ver]
PluginRef(mu, slug, ver) == [mu |-> mu, slug |-> slug, ver |-> ver]

EmptyDoc ==
    [generators |-> <<>>, stylesheets |-> <<>>, raw_theme |-> None,
     plugin_refs |-> <<>>]

Documents ==
    { EmptyDoc,
      \* a generator tag of another product, then WordPress 6.4; a stylesheet
      \* of the theme; akismet twice and the deny-listed index
      [generators |-> <<Some(<<"J">>), Some(WordPressPrefix \o V64)>>,
       stylesheets |-> <<None, Some(Href(None, Some(V12))),
                         Some(Href(Some("astra"), Some(V12)))>>,
       raw_theme |-> Some("astra"),
       plugin_refs |-> <<PluginRef(FALSE, "akismet", None),
                         PluginRef(FALSE, "akismet", Some(VHash)),
                         PluginRef(FALSE, "index", Some(V12))>>],
      \* every version token is "-"
      [generators |-> <<Some(WordPressPrefix \o VDash)>>,
       stylesheets |-> <<Some(Href(Some("astra"), Some(VDash)))>>,
       raw_theme |-> Some("astra"),
       plugin_refs |-> <<PluginRef(FALSE, "akismet", Some(VDash))>>],
      \* a generator "WordPress" without version before the versioned one; the
      \* theme only in the text; two plugins, one of them under mu-plugins too
      [generators |-> <<Some(WordPressWord), Some(WordPressPrefix \o V64)>>,
       stylesheets |-> <<Some(Href(None, None))>>,
       raw_theme |-> Some("astra"),
       plugin_refs |-> <<PluginRef(FALSE, "cache", None),
                         PluginRef(TRUE, "jetpack", None),
                         PluginRef(FALSE, "jetpack", Some(V12)),
                         PluginRef(FALSE, "akismet", Some(V64))>>] }

Sent(status, body) == [send |-> TRUE, status |-> status, body |-> body]
NotSent == [send |-> FALSE]

HomeResponses ==
    { NotSent, Sent(404, None), Sent(500, Some(EmptyDoc)), Sent(301, None),
      Sent(200, None) }
    \cup { Sent(200, Some(d)) : d \in Documents }

Page(capture) == [capture |-> capture]
PageResponses ==
    { NotSent, Sent(404, Some(Page(Some(V64)))), Sent(200, None),
      Sent(200, Some(Page(None))), Sent(200, Some(Page(Some(V64)))) }

Json(namespaces, name, url) ==
    [namespaces |-> namespaces, name |-> name, url |-> url]
NsOembed == <<"o", "e", "/", "1">>
NsWp == <<"w", "p", "/", "v", "2">>
RestResponses ==
    { NotSent, Sent(404, Some(Json(Some(<<NsWp>>), None, None))),
      Sent(200, None),
      Sent(200, Some(Json(None, None, None))),
      Sent(200, Some(Json(Some(<<NsOembed>>), None, None))),
      Sent(200, Some(Json(Some(<<NsOembed, NsWp>>), None, None))),
      Sent(200, Some(Json(None, Some("site"), None))),
      Sent(200, Some(Json(None, None, Some("site")))) }

Cookies(headers) == [send |-> TRUE, headers |-> headers]
CookieResponses ==
    { NotSent, Cookies(<<>>),
      Cookies(<< <<"s", "=", "1">> >>),
      Cookies(<< <<"s", "=", "1">>, <<"w", "p", "_", "l", "a", "n", "g", "=", "x">> >>),
      Cookies(<< <<"w", "p", "-", "s", "=", "1">> >>),
      Cookies(<< <<"s", "=", "w", "p", "-", "1">> >>) }

Answer(body) == [send |-> TRUE, body |-> body]
CoreResponses ==
    { NotSent, Answer(None), Answer(Some([offers |-> <<>>])),
      Answer(Some([offers |-> <<V65, V64>>])),
      Answer(Some([offers |-> <<V64>>])) }
InfoResponses ==
    { NotSent, Answer(None), Answer(Some([version |-> None])),
      Answer(Some([version |-> Some(V65)])),
      Answer(Some([version |-> Some(V12)])) }

(***************************************************************************)
(* Scanner::scan, one action per request it awaits.  scan holds its        *)
(* locals; scan.outcomes records, for each request of the log, whether it  *)
(* failed and what its detector returned.                                  *)
(***************************************************************************)
ScanStart ==
    [state |-> "running", document |-> EmptyDoc, wordpress_version |-> None,
     wordpress_detected |-> FALSE, wordpress_latest |-> None, theme |-> None,
     slugs |-> {}, plugins |-> <<>>, outcomes |-> <<>>, result |-> None]

Outcome(failed, found) == [failed |-> failed, found |-> found]

\* Option<()>: Some(()) or None
Unit(found) == IF found THEN Some(<<>>) ELSE None

base_url == built.res.v.base_url

ScanResult(sc, url) ==
    [url |-> url, wordpress_detected |-> sc.wordpress_detected,
     wordpress_version |-> sc.wordpress_version,
     wordpress_latest |-> sc.wordpress_latest, theme |-> sc.theme,
     plugins |-> sc.plugins]

\* Ok(ScanResult { .. })
finish(sc, url) ==
    [sc EXCEPT !.state = "done", !.result = Some(Ok(ScanResult(sc, url)))]

\* detect_plugins up to its first catalog call
enter_plugins(sc, url) ==
    IF plugin_slugs(sc.document) = {} THEN finish(sc, url)
    ELSE [sc EXCEPT !.slugs = plugin_slugs(sc.document)]

\* detect_theme up to its catalog call
enter_theme(sc, url) ==
    IF detect_theme_slug(sc.document).some
    THEN [sc EXCEPT !.theme = detect_theme_slug(sc.document)]
    ELSE enter_plugins(sc, url)

PcAfter(sc) ==
    IF sc.state = "done" THEN "scanned"
    ELSE IF sc.slugs # {} THEN "plugin_latest"
    ELSE "theme_latest"

\* Mutant of after_feed: readme.html is probed whatever the feed gave.
after_feed_always_readme(version) == "readme"

\* detect_wp_version and the || chain of scan: where the scan goes after a
\* heuristic returned
after_meta(version) == IF version.some THEN "core_latest" ELSE "feed"
after_feed(version) == IF version.some THEN "core_latest" ELSE "readme"
after_readme(version) == IF version.some THEN "core_latest" ELSE "wp_json"
after_rest_api(found) == IF found THEN "core_latest" ELSE "cookies"

\* let homepage_html = self.fetch_page(&self.base_url).await?; then
\* detect_version_from_meta
FetchHomepage ==
    /\ pc = "homepage"
    /\ \E resp \in HomeResponses :
         LET page == fetch_page(resp)
             seen == Outcome(~page.ok,
                             [send |-> resp.send,
                              status |-> IF resp.send THEN resp.status ELSE 0,
                              readable |-> resp.send /\ resp.body.some])
         IN  /\ requests' = Append(requests, TargetRequest(base_url))
             /\ IF ~page.ok
                THEN /\ scan' = [ScanStart EXCEPT !.state = "done",
                                                 !.outcomes = <<seen>>,
                                                 !.result = Some(page)]
                     /\ pc' = "failed"
                ELSE LET version == detect_version_from_meta(page.v.generators)
                     IN  /\ scan' = [ScanStart EXCEPT
                                       !.document = page.v,
                                       !.outcomes = <<seen>>,
                                       !.wordpress_version = version,
                                       !.wordpress_detected = version.some]
                         /\ pc' = after_meta(version)
    /\ UNCHANGED <<raw, allow_private, dnsAnswer, clientOk, built, analysis,
                   ip, verdict,
                   args, out>>

\* detect_version_from_feed
ProbeFeed ==
    /\ pc = "feed"
    /\ \E resp \in PageResponses :
         LET version == detect_version_from_page(resp)
         IN  /\ requests' = Append(requests,
                                   TargetRequest(url_join(base_url, WP_FEED_PATH)))
             /\ scan' = [scan EXCEPT
                           !.outcomes = Append(@, Outcome(~fetch_page(resp).ok, version)),
                           !.wordpress_version = version,
                           !.wordpress_detected = version.some]
             /\ pc' = after_feed(version)
    /\ UNCHANGED <<raw, allow_private, dnsAnswer, clientOk, built, analysis,
                   ip, verdict,
                   args, out>>

\* detect_version_from_readme
ProbeReadme ==
    /\ pc = "readme"
    /\ \E resp \in PageResponses :
         LET version == detect_version_from_page(resp)
         IN  /\ requests' = Append(requests,
                                   TargetRequest(url_join(base_url, WP_README_PATH)))
             /\ scan' = [scan EXCEPT
                           !.outcomes = Append(@, Outcome(~fetch_page(resp).ok, version)),
                           !.wordpress_version = version,
                           !.wordpress_detected = version.some]
             /\ pc' = after_readme(version)
    /\ UNCHANGED <<raw, allow_private, dnsAnswer, clientOk, built, analysis,
                   ip, verdict,
                   args, out>>

\* wordpress_version.is_some() || self.detect_wp_from_rest_api().await.is_some()
ProbeRestApi ==
    /\ pc = "wp_json"
    /\ \E resp \in RestResponses :
         LET found == detect_wp_from_rest_api(resp)
             failed == ~resp.send \/ ~is_success(resp.status) \/ ~resp.body.some
         IN  /\ requests' = Append(requests,
                                   TargetRequest(url_join(base_url, WP_JSON_PATH)))
             /\ scan' = [scan EXCEPT
                           !.outcomes = Append(@, Outcome(failed, Unit(found))),
                           !.wordpress_detected = found]
             /\ pc' = after_rest_api(found)
    /\ UNCHANGED <<raw, allow_private, dnsAnswer, clientOk, built, analysis,
                   ip, verdict,
                   args, out>>

\* || self.detect_wp_from_cookies().await.is_some()
ProbeCookies ==
    /\ pc = "cookies"
    /\ \E resp \in CookieResponses :
         LET found == detect_wp_from_cookies(resp)
         IN  /\ requests' = Append(requests, TargetRequest(base_url))
             /\ scan' = [scan EXCEPT
                           !.outcomes = Append(@, Outcome(~resp.send, Unit(found))),
                           !.wordpress_detected = found]
             /\ pc' = "core_latest"
    /\ UNCHANGED <<raw, allow_private, dnsAnswer, clientOk, built, analysis,
                   ip, verdict,
                   args, out>>

\* fetch_wp_latest_version, then detect_theme up to its catalog call
FetchWpLatest ==
    /\ pc = "core_latest"
    /\ \E resp \in CoreResponses :
         LET latest == fetch_wp_latest_version(resp)
             sc == [scan EXCEPT
                      !.outcomes = Append(@, Outcome(~resp.send \/ ~resp.body.some,
                                                     latest)),
                      !.wordpress_latest = latest]
         IN  /\ requests' = Append(requests, CatalogRequest("core", ""))
             /\ scan' = enter_theme(sc, base_url)
             /\ pc' = PcAfter(scan')
    /\ UNCHANGED <<raw, allow_private, dnsAnswer, clientOk, built, analysis,
                   ip, verdict,
                   args, out>>

\* theme.latest_version = self.fetch_theme_latest_version(&theme.slug).await,
\* then detect_plugins up to its first catalog call
FetchThemeLatest ==
    /\ pc = "theme_latest"
    /\ \E resp \in InfoResponses :
         LET latest == fetch_info_latest_version(resp)
             sc == [scan EXCEPT
                      !.outcomes = Append(@, Outcome(~resp.send \/ ~resp.body.some,
                                                     latest)),
                      !.theme = Some([@.v EXCEPT !.latest_version = latest])]
         IN  /\ requests' = Append(requests,
                                   CatalogRequest("themes", scan.theme.v.slug))
             /\ scan' = enter_plugins(sc, base_url)
             /\ pc' = PcAfter(scan')
    /\ UNCHANGED <<raw, allow_private, dnsAnswer, clientOk, built, analysis,
                   ip, verdict,
                   args, out>>

\* for slug in plugin_slugs { .. fetch_plugin_latest_version(&slug).await .. }
\* The HashSet yields its slugs in an order the code does not fix.
FetchPluginLatest ==
    /\ pc = "plugin_latest"
    /\ \E slug \in scan.slugs, resp \in InfoResponses :
         LET latest == fetch_info_latest_version(resp)
             info == [slug |-> slug,
                      version |-> find_plugin_version(scan.document, slug),
                      latest_version |-> latest]
             sc == [scan EXCEPT
                      !.outcomes = Append(@, Outcome(~resp.send \/ ~resp.body.some,
                                                     latest)),
                      !.plugins = Append(@, info),
                      !.slugs = @ \ {slug}]
         IN  /\ requests' = Append(requests, CatalogRequest("plugins", slug))
             /\ scan' = IF sc.slugs = {} THEN finish(sc, base_url) ELSE sc
             /\ pc' = PcAfter(scan')
    /\ UNCHANGED <<raw, allow_private, dnsAnswer, clientOk, built, analysis,
                   ip, verdict,
                   args, out>>

\* Analyzer::new(scan_result).analyze()
Analyze ==
    /\ pc = "scanned"
    /\ analysis' = analyze(scan.result.v.v)
    /\ pc' = "analyzed"
    /\ UNCHANGED <<raw, allow_private, dnsAnswer, clientOk, built, requests,
                   scan, ip, verdict,
                   args, out>>

\* The targets of the whole run: a public site, a site under a path, and
\* localhost, each with and without allow_private.
ScanTargets ==
    { [wellFormed |-> TRUE, sep |-> FALSE, scheme |-> "", host |-> Some(<<"a", ".", "b">>),
       port |-> None, path |-> "/"],
      [wellFormed |-> TRUE, sep |-> TRUE, scheme |-> "http", host |-> Some(Localhost),
       port |-> Some(8080), path |-> "/blog/"],
      [wellFormed |-> TRUE, sep |-> TRUE, scheme |-> "ftp", host |-> Some(<<"a", ".", "b">>),
       port |-> None, path |-> "/"] }

ScanDnsAnswers == { Ok(<<V4(8, 8, 8, 8)>>), Ok(<<V4(10, 0, 0, 1)>>) }

Init ==
    /\ pc = "new"
    /\ args = NoArgs
    /\ out = NoOut
    /\ raw \in ScanTargets
    /\ allow_private \in BOOLEAN
    /\ dnsAnswer \in ScanDnsAnswers
    /\ clientOk \in BOOLEAN
    /\ built = NotBuilt
    /\ requests = <<>>
    /\ scan = NoScan
    /\ analysis = NoAnalysis
    /\ ip = NoIp
    /\ verdict = FALSE

Next ==
    \/ Build
    \/ FetchHomepage
    \/ ProbeFeed
    \/ ProbeReadme
    \/ ProbeRestApi
    \/ ProbeCookies
    \/ FetchWpLatest
    \/ FetchThemeLatest
    \/ FetchPluginLatest
    \/ Analyze

Spec == Init /\ [][Next]_vars

(***************************************************************************)
(* Analyzer::new(scan).analyze() on its own.  ScanResult and its fields    *)
(* are public, so the Analyzer is handed any ScanResult a caller builds,   *)
(* a plugin list that repeats a slug included.                             *)
(***************************************************************************)
MaxPlugins == 2

InstalledVersions == { None, Some(V64), Some(V12), Some(VDash) }
LatestVersions == { None, Some(V65) }

ThemeInfos ==
    { [slug |-> "astra", version |-> v, latest_version |-> l] :
        v \in {None, Some(V12)}, l \in LatestVersions }

PluginInfos ==
    { [slug |-> sl, version |-> v, latest_version |-> l] :
        sl \in {"akismet", "jetpack"}, v \in {None, Some(V12)},
        l \in LatestVersions }

PluginLists == { <<>> } \cup SeqsUpTo(PluginInfos, MaxPlugins)

SampleUrl == Url_parse(url_with_scheme(CHOOSE u \in ScanTargets : ~u.sep)).v

ScanResults ==
    { [url |-> SampleUrl, wordpress_detected |-> d, wordpress_version |-> v,
       wordpress_latest |-> l, theme |-> t, plugins |-> ps] :
        d \in BOOLEAN, v \in InstalledVersions, l \in LatestVersions,
        t \in {None} \cup {Some(x) : x \in ThemeInfos}, ps \in PluginLists }

\* the locals of a finished scan that returned Ok(r)
GivenScan(r) ==
    [ScanStart EXCEPT !.state = "done",
                      !.wordpress_detected = r.wordpress_detected,
                      !.wordpress_version = r.wordpress_version,
                      !.wordpress_latest = r.wordpress_latest,
                      !.theme = r.theme, !.plugins = r.plugins,
                      !.result = Some(Ok(r))]

InitAnalyze ==
    /\ pc = "scanned"
    /\ args = NoArgs
    /\ out = NoOut
    /\ \E r \in ScanResults : scan = GivenScan(r)
    /\ analysis = NoAnalysis
    /\ raw = CHOOSE u \in ScanTargets : ~u.sep
    /\ allow_private = FALSE
    /\ dnsAnswer = [ok |-> FALSE]
    /\ clientOk = TRUE
    /\ built = NotBuilt
    /\ requests = <<>>
    /\ ip = NoIp
    /\ verdict = FALSE

NextAnalyze == Analyze

SpecAnalyze == InitAnalyze /\ [][NextAnalyze]_vars

(***************************************************************************)
(* compare_versions on its own: three version strings in, the comparisons  *)
(* of the pairs out.                                                       *)
(***************************************************************************)
VersionStrings ==
    { <<"1", ".", "2">>,
      <<"1", ".", "2", ".", "0">>,
      <<"2", ".", "0", ".", "0">>,
      <<"1", ".", "9", ".", "9">>,
      <<"7", ".", "0">>,
      <<"7", ".", "0", "-", "a", "l", "p", "h", "a">>,
      <<"7", ".", "0", "-", "b", "e", "t", "a">>,
      <<"7", ".", "0", ".", "0", "-", "r", "c">>,
      <<"6", ".", "4", ".", "2">>,
      <<"6", ".", "5">>,
      <<>>,
      <<"-">>,
      <<"1", ".", ".", "2">>,
      <<"+", "1", ".", "2">>,
      <<"1", ".", "2", "+", "b">>,
      <<"1", ".", "1", "0">>,
      <<"1", ".", "9">>,
      <<"-", "1">>,
      <<"1", ".", "9", "9", "9", "9", "9", "9", "9", "9", "9", "9", "9", "9", "9", "9", "9", "9", "9", "9", "9", "9", "9">>,
      <<"1", ".", "0", "0", "0", "0", "0", "0", "0", "0", "0", "0", "0", "0", "0", "0", "0", "0", "0", "0", "0", "0", "2">> }

\* v with one more zero component at the end of its numeric prefix
AppendZero(v) ==
    LET pos == suffix_pos(v)
        zero == <<".", "0">>
    IN  IF pos = 0 THEN v \o zero
        ELSE SubSeq(v, 1, pos - 1) \o zero \o SubSeq(v, pos, Len(v))

Compare ==
    /\ pc = "compare"
    /\ out' = [fn |-> "compare_versions",
               ab |-> compare_versions(args.a, args.b),
               ba |-> compare_versions(args.b, args.a),
               aa |-> compare_versions(args.a, args.a),
               bc |-> compare_versions(args.b, args.c),
               ac |-> compare_versions(args.a, args.c),
               a0b |-> compare_versions(AppendZero(args.a), args.b),
               ab0 |-> compare_versions(args.a, AppendZero(args.b))]
    /\ pc' = "compared"
    /\ UNCHANGED <<raw, allow_private, dnsAnswer, clientOk, built, requests,
                   scan, analysis, ip, verdict, args>>

InitCompare ==
    /\ pc = "compare"
    /\ args \in [fn : {"compare_versions"}, a : VersionStrings,
                  b : VersionStrings, c : VersionStrings]
    /\ out = NoOut
    /\ raw = CHOOSE u \in ScanTargets : ~u.sep
    /\ allow_private = FALSE
    /\ dnsAnswer = [ok |-> FALSE]
    /\ clientOk = TRUE
    /\ built = NotBuilt
    /\ requests = <<>>
    /\ scan = NoScan
    /\ analysis = NoAnalysis
    /\ ip = NoIp
    /\ verdict = FALSE

NextCompare == Compare

SpecCompare == InitCompare /\ [][NextCompare]_vars

(***************************************************************************)
(* normalize_version on its own: one token in, its normal form and the     *)
(* normal form of that out.                                                *)
(***************************************************************************)
RECURSIVE Repeat(_, _)
Repeat(c, n) == IF n = 0 THEN <<>> ELSE <<c>> \o Repeat(c, n - 1)

\* the lengths around the ones the code tests (7, 10, 40)
TokenLengths == {1, 6, 7, 8, 9, 10, 11, 39, 40, 41}
TokenHeads == {"0", "1", "2", "3", "a", "F", "g", "(", "."}
TokenFills == {"0", "7", "b", "E", "z", "-"}

Tokens ==
    { <<>>,
      <<"1", "7", "4", "8", "2", "7", "1", "7", "8", "4">>,
      <<"5", "6", "9", "a", "b", "5", "6", "6", "4", "3", "8", "7", "d", "0", "6", "c", "1", "6", "a", "2", "3", "4", "c", "9", "7", "7", "1", "d", "3", "d", "5", "7", "f", "b", "1", "5", "7", "2", "0", "a">>,
      <<"1", ".", "2", ".", "3">>,
      <<"2", "0", "2", "0", "0", "1", "2", "1">>,
      <<"7", ".", "0", "-", "a", "l", "p", "h", "a">>,
      <<"0", "7", "4", "8", "2", "7", "1", "7", "8", "4">>,
      <<"3", "7", "4", "8", "2", "7", "1", "7", "8", "4">>,
      <<"a", "b", "c", "d", "e", "f", "1">>,
      <<"A", "B", "C", "D", "E", "F", "1">>,
      <<"a", "b", "c", "d", "e", "f">>,
      <<"1", "2", "3", "4", "5", "6", "7">>,
      <<"(", "h", "a", "s", "h", ":", "5", "6", "9", "a", "b", "5", "6", ")">>,
      <<"(", "t", "i", "m", "e", "s", "t", "a", "m", "p", ":", "1", "7", "4", "8", "2", "7", "1", "7", "8", "4", ")">>,
      <<"d", "e", "a", "d", "b", "e", "e", "f">>,
      <<"1", "7", "4", "8", "2", "7", "1", "7", "8", "a">> }
    \cup { <<h>> \o Repeat(f, n - 1) :
             h \in TokenHeads, f \in TokenFills, n \in TokenLengths }

Normalize ==
    /\ pc = "normalize"
    /\ out' = [fn |-> "normalize_version",
               once |-> normalize_version(args.x),
               twice |-> normalize_version(normalize_version(args.x))]
    /\ pc' = "normalized"
    /\ UNCHANGED <<raw, allow_private, dnsAnswer, clientOk, built, requests,
                   scan, analysis, ip, verdict, args>>

InitNormalize ==
    /\ pc = "normalize"
    /\ args \in [fn : {"normalize_version"}, x : Tokens]
    /\ out = NoOut
    /\ raw = CHOOSE u \in ScanTargets : ~u.sep
    /\ allow_private = FALSE
    /\ dnsAnswer = [ok |-> FALSE]
    /\ clientOk = TRUE
    /\ built = NotBuilt
    /\ requests = <<>>
    /\ scan = NoScan
    /\ analysis = NoAnalysis
    /\ ip = NoIp
    /\ verdict = FALSE

NextNormalize == Normalize

SpecNormalize == InitNormalize /\ [][NextNormalize]_vars

(***************************************************************************)
(* detect_wp_from_cookies on its own: one response to the homepage         *)
(* request in, the verdict out.                                            *)
(***************************************************************************)
\* Most Set-Cookie headers a sampled response carries.
MaxCookies == 2

SetCookieHeaders ==
    { <<"s", "=", "1">>,
      <<"w", "p", "_", "l", "a", "n", "g", "=", "x">>,
      <<"w", "p", "-", "s", "=", "1">>,
      <<"w", "o", "r", "d", "p", "r", "e", "s", "s", "_", "a", "=", "1">>,
      <<"s", "=", "w", "p", "-", "1">>,
      <<"s", "=", "1", ";", " ", "p", "a", "t", "h", "=", "/", "w", "p", "-", "a">>,
      <<"x", "w", "p", "-", "s", "=", "1">>,
      <<"w", "p", "_", "l", "a", "n", "g", "x", "=", "1">> }

SetCookieResponses ==
    { NotSent, Cookies(<<>>) }
    \cup { Cookies(h) : h \in SeqsUpTo(SetCookieHeaders, MaxCookies) }

DetectCookies ==
    /\ pc = "detect_cookies"
    /\ out' = [fn |-> "detect_wp_from_cookies",
               found |-> detect_wp_from_cookies(args.resp)]
    /\ pc' = "cookies_detected"
    /\ UNCHANGED <<raw, allow_private, dnsAnswer, clientOk, built, requests,
                   scan, analysis, ip, verdict, args>>

InitCookies ==
    /\ pc = "detect_cookies"
    /\ \E r \in SetCookieResponses :
         args = [fn |-> "detect_wp_from_cookies", resp |-> r]
    /\ out = NoOut
    /\ raw = CHOOSE u \in ScanTargets : ~u.sep
    /\ allow_private = FALSE
    /\ dnsAnswer = [ok |-> FALSE]
    /\ clientOk = TRUE
    /\ built = NotBuilt
    /\ requests = <<>>
    /\ scan = NoScan
    /\ analysis = NoAnalysis
    /\ ip = NoIp
    /\ verdict = FALSE

NextCookies == DetectCookies

SpecCookies == InitCookies /\ [][NextCookies]_vars

(***************************************************************************)
(* The way of one ver= token: detect_theme and detect_plugins read it off  *)
(* the homepage (through normalize_version), the catalog answers a latest  *)
(* version, and the Analyzer classifies the theme and the plugin.          *)
(***************************************************************************)
\* the characters a ver= token is made of: [0-9a-zA-Z._-]
VerChars == Digits \cup Lower \cup Upper \cup {".", "_", "-"}
\* A version whose numeric segments have at most 9 or more than 20
\* significant digits: the values the integers of the model hold, and the
\* ones u64 rejects (see parse_u64).
InModelRange(v) ==
    LET pos == suffix_pos(v)
        segs == split_dot(IF pos > 0 THEN SubSeq(v, 1, pos - 1) ELSE v)
    IN  \A i \in DOMAIN segs :
            ~(/\ segs[i] # <<>>
              /\ All(segs[i], is_ascii_digit)
              /\ Len(strip_zeros(segs[i])) \in 10..U64Digits)

VerTokens ==
    { t \in Tokens :
        /\ t # <<>>
        /\ \A k \in DOMAIN t : t[k] \in VerChars
        /\ InModelRange(normalize_version(t)) }

CatalogVersions ==
    { None } \cup { Some(v) : v \in { <<"0">>, <<"0", ".", "0">>, <<"1", ".", "2">>, <<"1", "0", ".", "0", ".", "1">>, <<"6", ".", "5">> } }

\* a homepage whose theme stylesheet and plugin asset carry ?ver=token
VerDocument(token) ==
    [generators |-> <<>>,
     stylesheets |-> <<Some(Href(Some("astra"), Some(token)))>>,
     raw_theme |-> Some("astra"),
     plugin_refs |-> <<PluginRef(FALSE, "akismet", Some(token))>>]

\* detect_theme and detect_plugins on that homepage, the catalog answering
\* args.latest for both
DetectComponents ==
    /\ pc = "detect"
    /\ LET document == VerDocument(args.token)
           theme == [detect_theme_slug(document).v EXCEPT
                       !.latest_version = args.latest]
           plugins == << [slug |-> "akismet",
                          version |-> find_plugin_version(document, "akismet"),
                          latest_version |-> args.latest] >>
       IN  scan' = GivenScan([url |-> SampleUrl, wordpress_detected |-> FALSE,
                              wordpress_version |-> None,
                              wordpress_latest |-> None,
                              theme |-> Some(theme), plugins |-> plugins])
    /\ pc' = "scanned"
    /\ UNCHANGED <<raw, allow_private, dnsAnswer, clientOk, built, requests,
                   analysis, ip, verdict, args, out>>

InitMasked ==
    /\ pc = "detect"
    /\ args \in [fn : {"detect"}, token : VerTokens, latest : CatalogVersions]
    /\ out = NoOut
    /\ raw = CHOOSE u \in ScanTargets : ~u.sep
    /\ allow_private = FALSE
    /\ dnsAnswer = [ok |-> FALSE]
    /\ clientOk = TRUE
    /\ built = NotBuilt
    /\ requests = <<>>
    /\ scan = NoScan
    /\ analysis = NoAnalysis
    /\ ip = NoIp
    /\ verdict = FALSE

NextMasked ==
    \/ DetectComponents
    \/ Analyze

SpecMasked == InitMasked /\ [][NextMasked]_vars

(***************************************************************************)
(* Properties of the construction (SpecBuild) and of is_internal_ip        *)
(* (SpecIp).                                                               *)
(***************************************************************************)
Constructed == pc \in {"homepage", "rejected"}
ParsedUrl == Url_parse(url_with_scheme(raw))
SchemeAllowed == ParsedUrl.ok /\ ParsedUrl.v.scheme \in ALLOWED_SCHEMES
RejectedInvalidUrl == ~built.res.ok /\ built.res.kind = "InvalidUrl"

\* The set of internal addresses as the specification lists it, with the
\* 192.0.0.0/24 block.
ListedInternal(a) ==
    IF a.v = 4
    THEN \/ a.o[1] = 127
         \/ a.o[1] = 10
         \/ a.o[1] = 172 /\ a.o[2] \in 16..31
         \/ a.o[1] = 192 /\ a.o[2] = 168
         \/ a.o[1] = 169 /\ a.o[2] = 254
         \/ a.o = <<255, 255, 255, 255>>
         \/ a.o = <<0, 0, 0, 0>>
         \/ a.o[1] = 100 /\ a.o[2] \in 64..127
         \/ a.o = <<169, 254, 169, 254>>
         \/ a.o[1] = 192 /\ a.o[2] = 0 /\ a.o[3] = 0
    ELSE \/ a.s = <<0, 0, 0, 0, 0, 0, 0, 1>>
         \/ a.s = <<0, 0, 0, 0, 0, 0, 0, 0>>
         \/ a.s[1] \in 64512..65023            \* fc00::/7
         \/ a.s[1] \in 65152..65215            \* fe80::/10

\* C3: is_internal_ip answers true exactly for the addresses of the listed
\* set (192.0.0.0/24 among them), and false for every other address.
C3_ClassifiesExactlyListedSet ==
    pc = "classified" => (verdict = ListedInternal(ip))

\* C4: with SSRF protection enabled, a URL whose scheme is not http or https,
\* or whose host is localhost or ends with .localhost, never yields a Scanner:
\* construction fails with InvalidUrl; and every error that validation
\* produces is an InvalidUrl (the one other error of the construction is the
\* HTTP client's, after validation has passed).
C4_ProtectedRejectsSchemeAndLocalhost ==
    (Constructed /\ ~allow_private) =>
        /\ (ParsedUrl.ok /\ ~SchemeAllowed) => RejectedInvalidUrl
        /\ (SchemeAllowed /\ ParsedUrl.v.host.some
              /\ (ParsedUrl.v.host.v = Localhost
                    \/ EndsWith(ParsedUrl.v.host.v, DotLocalhost)))
             => RejectedInvalidUrl
        /\ ~built.res.ok =>
             \/ built.res.kind = "InvalidUrl"
             \/ built.res.kind = "HttpClient" /\ ~clientOk

C4_Witness ==
    /\ pc = "rejected"
    /\ ~allow_private
    /\ raw.scheme = "http"
    /\ raw.host = Some(Ch("a") \o DotLocalhost)
    /\ built.res = Err("InvalidUrl", "localhost not allowed")

\* C5: with allow_private set, validation rejects exactly the URLs that do
\* not parse or whose scheme is not http or https; validate_host does not
\* run and no DNS query is made, so localhost and internal addresses are
\* accepted.  Without the flag the localhost check runs on every URL that
\* passed the scheme check, the DNS query is made for every host that
\* passed the localhost check, and an internal address in the answer rejects.
C5_AllowPrivateLeavesOnlySchemeValidation ==
    Constructed =>
        /\ allow_private =>
             /\ RejectedInvalidUrl <=> ~SchemeAllowed
             /\ ~built.hostChecked
             /\ ~built.query.some
        /\ (~allow_private /\ SchemeAllowed) =>
             /\ built.hostChecked
             /\ (built.query.some
                   <=> (ParsedUrl.v.host.some
                          /\ ~host_is_localhost(ParsedUrl.v.host.v)))
             /\ (built.query.some /\ dnsAnswer.ok
                   /\ \E i \in DOMAIN dnsAnswer.v : is_internal_ip(dnsAnswer.v[i]))
                  => RejectedInvalidUrl

C5_Witness ==
    /\ pc = "homepage"
    /\ allow_private
    /\ raw.host = Some(Localhost)
    /\ dnsAnswer = Ok(<<V4(127, 0, 0, 1)>>)
    /\ built.res.ok

\* C6: with protection enabled and a host that is not localhost/.localhost,
\* validation passes exactly when the DNS lookup fails or no resolved
\* address is internal, wherever in the answer an internal address stands.
C6_ValidateHostPassesIffNoInternalAddress ==
    (Constructed /\ ~allow_private /\ SchemeAllowed /\ ParsedUrl.v.host.some
       /\ ~host_is_localhost(ParsedUrl.v.host.v))
    => /\ built.query = Some([host |-> ParsedUrl.v.host.v,
                              port |-> IF ParsedUrl.v.port.some
                                       THEN ParsedUrl.v.port.v
                                       ELSE IF ParsedUrl.v.scheme = "https"
                                            THEN 443 ELSE 80])
       /\ ~RejectedInvalidUrl
            <=> \/ ~dnsAnswer.ok
                \/ \A i \in DOMAIN dnsAnswer.v : ~is_internal_ip(dnsAnswer.v[i])

C6_Witness ==
    /\ pc = "rejected"
    /\ ~allow_private
    /\ raw.host = Some(<<"a", ".", "b">>)
    /\ dnsAnswer = Ok(<<V4(8, 8, 8, 8), V4(10, 0, 0, 1)>>)
    /\ built.res = Err("InvalidUrl", "internal/private IP address not allowed")

(***************************************************************************)
(* Properties of the whole run (Spec): construction, scan, analysis.       *)
(***************************************************************************)
ScanDone == scan.state = "done"
ScanOk == ScanDone /\ scan.result.v.ok
Home == scan.outcomes[1].found
HomeFetched == Home.send /\ Home.status \in 200..299 /\ Home.readable

\* the requests of the log that went to the target / to the catalog
TargetIdx == {i \in DOMAIN requests : requests[i].to = "target"}
CatalogIdx(endpoint) ==
    {i \in DOMAIN requests :
       requests[i].to = "catalog" /\ requests[i].endpoint = endpoint}
Missed(i) == ~scan.outcomes[i].found.some

\* C1: scan() returns an error exactly when the homepage fetch fails:
\* HttpRequest on a transport failure, HttpStatus carrying the code on a
\* non-2xx response.  After a successful homepage fetch the scan ends in
\* Ok(ScanResult) whatever later probe fails, and a failed probe leaves its
\* field at None / false.
C1_ScanFailsOnlyOnHomepageFetch ==
    /\ pc \in {"failed", "scanned", "analyzed"} <=> (scan # NoScan /\ ScanDone)
    /\ (scan # NoScan /\ ScanDone) =>
        /\ ~scan.result.v.ok <=> ~HomeFetched
        /\ pc = "failed" <=> ~HomeFetched
        /\ ~Home.send => scan.result.v = Err("HttpRequest", "send")
        /\ (Home.send /\ Home.status \notin 200..299)
             => scan.result.v = Err("HttpStatus", Home.status)
        /\ (Home.send /\ Home.status \in 200..299 /\ ~Home.readable)
             => scan.result.v = Err("HttpRequest", "body")
        /\ ~HomeFetched => Len(requests) = 1
        /\ HomeFetched =>
             LET r == scan.result.v.v
             IN  /\ \A i \in 2..Len(requests) : scan.outcomes[i].failed => Missed(i)
                 /\ (\A i \in TargetIdx \ {1} : scan.outcomes[i].failed)
                      => (r.wordpress_version =
                            detect_version_from_meta(scan.document.generators)
                          /\ r.wordpress_detected = r.wordpress_version.some)
                 /\ \A i \in CatalogIdx("core") :
                      scan.outcomes[i].failed => r.wordpress_latest = None
                 /\ \A i \in CatalogIdx("themes") :
                      scan.outcomes[i].failed
                        => r.theme.some /\ r.theme.v.latest_version = None
                 /\ \A i \in CatalogIdx("plugins") :
                      scan.outcomes[i].failed
                        => \E k \in DOMAIN r.plugins :
                             /\ r.plugins[k].slug = requests[i].slug
                             /\ r.plugins[k].latest_version = None

C1_Witness ==
    /\ pc = "scanned"
    /\ ScanOk
    /\ Len(requests) >= 9
    /\ \A i \in 2..Len(requests) : scan.outcomes[i].failed
    /\ scan.result.v.v.wordpress_version = None
    /\ ~scan.result.v.v.wordpress_detected
    /\ scan.result.v.v.theme.some

\* C2: a request is issued only after build_internal has run and passed
\* validation: the scheme is http or https and, unless allow_private is set,
\* the host is not localhost and no resolved address is internal.  A
\* rejected URL leads to no request at all.
C2_NoRequestBeforeValidation ==
    requests # <<>> =>
        /\ pc # "new"
        /\ built.res.ok
        /\ ParsedUrl.ok
        /\ ParsedUrl.v.scheme \in {"http", "https"}
        /\ built.res.v.base_url.scheme \in {"http", "https"}
        /\ ~allow_private =>
             /\ ParsedUrl.v.host.some
             /\ ParsedUrl.v.host.v # Localhost
             /\ ~EndsWith(ParsedUrl.v.host.v, DotLocalhost)
             /\ dnsAnswer.ok =>
                  \A i \in DOMAIN dnsAnswer.v : ~is_internal_ip(dnsAnswer.v[i])

C2_Witness ==
    /\ ~allow_private
    /\ built.hostChecked
    /\ built.query.some
    /\ Len(requests) >= 2

\* The order in which scan addresses the target.
ProbeChain ==
    << base_url, url_join(base_url, WP_FEED_PATH),
       url_join(base_url, WP_README_PATH), url_join(base_url, WP_JSON_PATH),
       base_url >>

\* The first Some among the results of meta, feed and readme.
FirstVersion ==
    LET meta == detect_version_from_meta(scan.document.generators)
        k == Cardinality(TargetIdx)
    IN  IF meta.some THEN meta
        ELSE IF k >= 2 /\ scan.outcomes[2].found.some THEN scan.outcomes[2].found
        ELSE IF k >= 3 THEN scan.outcomes[3].found
        ELSE None

\* C7: the target is probed in the fixed order homepage (meta tag), /feed/,
\* /readme.html, /wp-json/, homepage (cookies); each probe is issued only
\* if every earlier heuristic failed; the version is the result of the first
\* of meta/feed/readme that succeeded; wp-json is probed only when all three
\* failed and the cookies only when wp-json failed too.
C7_CoreDetectionIsShortCircuitChain ==
    (scan # NoScan /\ HomeFetched) =>
        LET k == Cardinality(TargetIdx)
            meta == detect_version_from_meta(scan.document.generators)
            chainEnded == pc \notin {"feed", "readme", "wp_json", "cookies"}
        IN  /\ TargetIdx = 1..k
            /\ k <= 5
            /\ \A i \in 1..k : requests[i] = TargetRequest(ProbeChain[i])
            /\ k >= 2 => ~meta.some
            /\ \A i \in 3..k : \A j \in 2..(i - 1) : Missed(j)
            /\ chainEnded =>
                 /\ scan.wordpress_version = FirstVersion
                 /\ scan.wordpress_version.some => (k = 1 \/ (k <= 3 /\ ~Missed(k)))
                 /\ ~scan.wordpress_version.some => k >= 4
                 /\ (k = 4) => scan.outcomes[4].found.some
                 /\ scan.wordpress_detected
                      = (scan.wordpress_version.some
                           \/ scan.outcomes[k].found.some)

C7_Witness ==
    /\ pc = "core_latest"
    /\ Cardinality(TargetIdx) = 5
    /\ scan.outcomes[5].found.some
    /\ scan.wordpress_detected
    /\ ~scan.wordpress_version.some

(***************************************************************************)
(* Properties of the analysis of a returned ScanResult (Spec).             *)
(***************************************************************************)
Analyzed == pc = "analyzed"
Scanned == scan.result.v.v

\* The slots of an analysed scan: what was installed, what is the latest,
\* whether the component was detected as present, and its ComponentAnalysis.
Slot(installed, latest, present, entry) ==
    [installed |-> installed, latest |-> latest, present |-> present,
     entry |-> entry]

Slots ==
    { Slot(Scanned.wordpress_version, Scanned.wordpress_latest,
           Scanned.wordpress_version.some \/ Scanned.wordpress_detected,
           analysis.wordpress) }
    \cup { Slot(IF Scanned.theme.some THEN Scanned.theme.v.version ELSE None,
                IF Scanned.theme.some THEN Scanned.theme.v.latest_version ELSE None,
                Scanned.theme.some, analysis.theme) }
    \cup { Slot(Scanned.plugins[i].version, Scanned.plugins[i].latest_version,
                TRUE, analysis.plugins[Scanned.plugins[i].slug]) :
             i \in DOMAIN Scanned.plugins }

\* C8: a component whose installed and latest versions are both known is
\* Outdated exactly when compare_versions(installed, latest) is Less, and Ok
\* otherwise, for every installed version string the detectors produce.
C8_StatusFollowsComparison ==
    Analyzed =>
        \A c \in Slots :
            (c.installed.some /\ c.latest.some) =>
                c.entry.status =
                    IF compare_versions(c.installed.v, c.latest.v) = "Less"
                    THEN "Outdated" ELSE "Ok"

\* C9: a component is NotDetected exactly when it was not detected as
\* present, and Unknown exactly when it is present with no installed
\* version; in both cases its version field is "-".
C9_NotDetectedAndUnknownExactly ==
    Analyzed =>
        \A c \in Slots :
            /\ c.entry.status = "NotDetected" <=> ~c.present
            /\ c.entry.status = "Unknown" <=> (c.present /\ ~c.installed.some)
            /\ c.entry.status \in {"NotDetected", "Unknown"}
                 => c.entry.version = <<"-">>

\* C10: a component whose installed version is known (any string) and whose
\* latest version is unknown is Ok, with latest_version "-".
C10_KnownInstalledUnknownLatestIsOk ==
    Analyzed =>
        \A c \in Slots :
            (c.installed.some /\ ~c.latest.some) =>
                /\ c.entry.status = "Ok"
                /\ c.entry.latest_version = <<"-">>

(***************************************************************************)
(* Properties of the Analyzer on any ScanResult (SpecAnalyze).             *)
(***************************************************************************)
PluginSlugs(r) == { r.plugins[i].slug : i \in DOMAIN r.plugins }

\* C11: analyze() never fails, and its Analysis has one core entry, one
\* theme entry (present even when NotDetected) and a plugin map with exactly
\* one entry per distinct slug of ScanResult.plugins, keyed by the slug, the
\* entry's name being its key; with no plugins the map is empty and
\* plugin_count() is 0.
C11_AnalysisHasOneEntryPerComponent ==
    Analyzed =>
        /\ analysis.state = "done"
        /\ analysis.wordpress.component_type = "Core"
        /\ analysis.theme.component_type = "Theme"
        /\ DOMAIN analysis.plugins = PluginSlugs(Scanned)
        /\ plugin_count(analysis) = Cardinality(PluginSlugs(Scanned))
        /\ \A sl \in DOMAIN analysis.plugins :
             /\ analysis.plugins[sl].name = sl
             /\ analysis.plugins[sl].component_type = "Plugin"
        /\ Scanned.plugins = <<>> =>
             (DOMAIN analysis.plugins = {} /\ plugin_count(analysis) = 0)

\* a list that repeats a slug, one of them with no version, and no theme
C11_Witness ==
    /\ Analyzed
    /\ Len(Scanned.plugins) = 2
    /\ Scanned.plugins[1].slug = Scanned.plugins[2].slug
    /\ ~Scanned.plugins[2].version.some
    /\ plugin_count(analysis) = 1
    /\ analysis.theme.status = "NotDetected"

(***************************************************************************)
(* Properties of compare_versions (SpecCompare).                           *)
(***************************************************************************)
Compared == pc = "compared"
Reverse(o) == CASE o = "Less" -> "Greater" [] o = "Greater" -> "Less" [] OTHER -> "Equal"

\* C12: compare_versions is a total preorder on strings: compare(a, b) is
\* the reverse of compare(b, a), compare(a, a) is Equal, and compare(a, b) #
\* Greater with compare(b, c) # Greater implies compare(a, c) # Greater.
C12_CompareIsTotalPreorder ==
    Compared =>
        /\ out.ab = Reverse(out.ba)
        /\ out.aa = "Equal"
        /\ (out.ab # "Greater" /\ out.bc # "Greater") => out.ac # "Greater"

\* a chain a < b = c through a dropped segment and a trailing zero
C12_Witness ==
    /\ Compared
    /\ args.a = <<"1", ".", "2", "+", "b">>
    /\ args.b = <<"1", ".", "2">>
    /\ args.c = <<"1", ".", "2", ".", "0">>
    /\ out.ab = "Less" /\ out.bc = "Equal" /\ out.ac = "Less"

\* The numeric sequence of a string as the specification words it: the
\* prefix before the first '-' or ASCII letter, cut at its dots, the
\* segments that parse as unsigned integers kept in order.
RECURSIVE NumericPrefix(_)
NumericPrefix(v) ==
    IF v = <<>> \/ Head(v) = "-" \/ Head(v) \in Lower \cup Upper THEN <<>>
    ELSE <<Head(v)>> \o NumericPrefix(Tail(v))

RECURSIVE CutAtDots(_, _)
CutAtDots(s, seg) ==
    IF s = <<>> THEN <<seg>>
    ELSE IF Head(s) = "." THEN <<seg>> \o CutAtDots(Tail(s), <<>>)
    ELSE CutAtDots(Tail(s), Append(seg, Head(s)))

NumericSequence(v) ==
    LET segs == CutAtDots(NumericPrefix(v), <<>>)
        kept == SelectSeq(segs, LAMBDA g : parse_u64(g).some)
    IN  [i \in DOMAIN kept |-> parse_u64(kept[i]).v]

\* zero-pad the shorter sequence, then the first unequal pair decides
RECURSIVE FirstUnequal(_, _)
FirstUnequal(x, y) ==
    IF x = <<>> /\ y = <<>> THEN "Equal"
    ELSE LET hx == IF x = <<>> THEN 0 ELSE Head(x)
             hy == IF y = <<>> THEN 0 ELSE Head(y)
             tx == IF x = <<>> THEN <<>> ELSE Tail(x)
             ty == IF y = <<>> THEN <<>> ELSE Tail(y)
         IN  IF hx < hy THEN "Less"
             ELSE IF hx > hy THEN "Greater"
             ELSE FirstUnequal(tx, ty)

NumericOrder(a, b) == FirstUnequal(NumericSequence(a), NumericSequence(b))

\* C13: the numeric step of compare_versions: each string contributes the
\* dot-separated unsigned integers of its prefix before the first '-' or
\* ASCII letter, unparseable segments dropped; the shorter sequence is
\* zero-padded and the first unequal pair decides.  Trailing zero components
\* never change the result (compare("1.2", "1.2.0") = Equal), and
\* compare("2.0.0", "1.9.9") = Greater.
C13_NumericStepDecides ==
    Compared =>
        /\ NumericOrder(args.a, args.b) # "Equal"
             => out.ab = NumericOrder(args.a, args.b)
        /\ NumericSequence(args.a) = parse_version(args.a).parts
        /\ out.a0b = out.ab
        /\ out.ab0 = out.ab
        /\ (args.a = <<"1", ".", "2">> /\ args.b = <<"1", ".", "2", ".", "0">>) => out.ab = "Equal"
        /\ (args.a = <<"2", ".", "0", ".", "0">> /\ args.b = <<"1", ".", "9", ".", "9">>) => out.ab = "Greater"

\* an empty segment is dropped and a trailing zero pads: 1..2 against 1.2.0
C13_Witness ==
    /\ Compared
    /\ args.a = <<"1", ".", ".", "2">>
    /\ args.b = <<"1", ".", "2", ".", "0">>
    /\ out.ab = "Equal"
    /\ out.a0b = "Equal"

\* a version carries a suffix when a '-' or an ASCII letter occurs in it
HasSuffix(v) == \E i \in DOMAIN v : v[i] = "-" \/ v[i] \in Lower \cup Upper

\* C14: the suffix rule of compare_versions: with all zero-padded numeric
\* components equal, a version without a suffix is Greater than one with a
\* suffix (compare("7.0", "7.0-alpha") = Greater) and two versions that both
\* carry or both lack a suffix are Equal whatever the suffix text
\* (compare("7.0-alpha", "7.0-beta") = Equal); when the numeric components
\* differ the suffix has no influence.
C14_SuffixRule ==
    Compared =>
        /\ NumericOrder(args.a, args.b) = "Equal" =>
             /\ (~HasSuffix(args.a) /\ HasSuffix(args.b)) => out.ab = "Greater"
             /\ (HasSuffix(args.a) /\ ~HasSuffix(args.b)) => out.ab = "Less"
             /\ (HasSuffix(args.a) = HasSuffix(args.b)) => out.ab = "Equal"
        /\ NumericOrder(args.a, args.b) # "Equal" =>
             out.ab = compare_versions(NumericPrefix(args.a), NumericPrefix(args.b))
        /\ (args.a = <<"7", ".", "0">> /\ args.b = <<"7", ".", "0", "-", "a", "l", "p", "h", "a">>) => out.ab = "Greater"
        /\ (args.a = <<"7", ".", "0", "-", "a", "l", "p", "h", "a">> /\ args.b = <<"7", ".", "0", "-", "b", "e", "t", "a">>) => out.ab = "Equal"

\* two different suffixes on equal numbers, and the bare version above both
C14_Witness ==
    /\ Compared
    /\ args.a = <<"7", ".", "0", "-", "a", "l", "p", "h", "a">>
    /\ args.b = <<"7", ".", "0", "-", "b", "e", "t", "a">>
    /\ args.c = <<"7", ".", "0">>
    /\ out.ab = "Equal"
    /\ out.bc = "Less"

(***************************************************************************)
(* Properties of normalize_version (SpecNormalize).                        *)
(***************************************************************************)
Normalized == pc = "normalized"

\* C15: normalize_version is idempotent: normalize(normalize(x)) =
\* normalize(x) for every token x, the tokens masked as "(timestamp:...)" or
\* "(hash:...)" on the first application included.
C15_NormalizeIsIdempotent == Normalized => out.twice = out.once

\* a hash longer than 7 characters, masked once and left alone after
C15_Witness ==
    /\ Normalized
    /\ args.x = <<"d", "e", "a", "d", "b", "e", "e", "f">>
    /\ out.once = <<"(", "h", "a", "s", "h", ":", "d", "e", "a", "d", "b", "e", "e", ")">>
    /\ out.twice = out.once

\* the reference rule of the specification
IsDecimal(t) == \A i \in DOMAIN t : t[i] \in Digits
IsHex(t) ==
    \A i \in DOMAIN t :
        t[i] \in Digits \cup {"a", "b", "c", "d", "e", "f"}
                      \cup {"A", "B", "C", "D", "E", "F"}
ReferenceNormalize(t) ==
    IF Len(t) = 10 /\ IsDecimal(t) /\ t[1] \in {"1", "2"}
    THEN <<"(", "t", "i", "m", "e", "s", "t", "a", "m", "p", ":">> \o t \o <<")">>
    ELSE IF Len(t) >= 7 /\ IsHex(t) /\ ~IsDecimal(t)
    THEN <<"(", "h", "a", "s", "h", ":">> \o SubSeq(t, 1, 7) \o <<")">>
    ELSE t

\* C16: normalize_version agrees with the reference rule on every token:
\* exactly 10 ASCII digits starting with 1 or 2 become "(timestamp:<token>)";
\* otherwise at least 7 characters, all hexadecimal and not all decimal,
\* become "(hash:<first 7 characters>)"; every other token is unchanged.
C16_NormalizeAgreesWithReference ==
    Normalized => out.once = ReferenceNormalize(args.x)

\* the date-like 8-digit token passes through, as the unit test expects
C16_Witness ==
    /\ Normalized
    /\ args.x = <<"2", "0", "2", "0", "0", "1", "2", "1">>
    /\ out.once = args.x

(***************************************************************************)
(* Properties of the plugin list and of the requests of a scan (Spec).     *)
(***************************************************************************)
\* the slugs the plugins/mu-plugins path pattern matches in the homepage
MatchedSlugs == { scan.document.plugin_refs[i].slug :
                    i \in DOMAIN scan.document.plugin_refs }
DenyList == {"index", "cache"}
PluginQueries(sl) == { i \in CatalogIdx("plugins") : requests[i].slug = sl }

\* C17: the plugin list of a ScanResult holds each slug at most once, never
\* "index" or "cache", and exactly the distinct slugs the plugins/mu-plugins
\* pattern matches in the homepage minus the deny-list; one plugin-catalog
\* query is issued per retained slug and none for a deny-listed slug.
C17_PluginListIsDistinctMatchedSlugs ==
    /\ \A i \in CatalogIdx("plugins") :
         /\ requests[i].slug \in MatchedSlugs \ DenyList
         /\ Cardinality(PluginQueries(requests[i].slug)) = 1
    /\ ScanOk =>
         LET plugins == scan.result.v.v.plugins
         IN  /\ \A i, j \in DOMAIN plugins :
                  plugins[i].slug = plugins[j].slug => i = j
             /\ { plugins[i].slug : i \in DOMAIN plugins } = MatchedSlugs \ DenyList
             /\ \A sl \in MatchedSlugs \ DenyList :
                  Cardinality(PluginQueries(sl)) = 1
             /\ \A sl \in DenyList : PluginQueries(sl) = {}

\* a homepage with "cache", jetpack under plugins/ and mu-plugins/, akismet
C17_Witness ==
    /\ ScanOk
    /\ "cache" \in MatchedSlugs
    /\ \E i, j \in DOMAIN scan.document.plugin_refs :
         /\ scan.document.plugin_refs[i].slug = scan.document.plugin_refs[j].slug
         /\ scan.document.plugin_refs[i].mu /\ ~scan.document.plugin_refs[j].mu
    /\ Len(scan.result.v.v.plugins) = 2
    /\ Cardinality(CatalogIdx("plugins")) = 2

\* {base}/name: the file name appended to the path of the base URL
PathUnder(dir, name) ==
    CASE dir = "/" /\ name = "feed/" -> "/feed/"
      [] dir = "/" /\ name = "readme.html" -> "/readme.html"
      [] dir = "/" /\ name = "wp-json/" -> "/wp-json/"
      [] dir = "/blog/" /\ name = "feed/" -> "/blog/feed/"
      [] dir = "/blog/" /\ name = "readme.html" -> "/blog/readme.html"
      [] dir = "/blog/" /\ name = "wp-json/" -> "/blog/wp-json/"
WellKnownNames == {"feed/", "readme.html", "wp-json/"}
UnderBase(name) == [base_url EXCEPT !.path = PathUnder(base_url.path, name)]
CatalogEndpoints == {"core", "themes", "plugins"}

\* C18: every request sent to the target addresses the homepage (the
\* validated base URL), {base}/feed/, {base}/readme.html or {base}/wp-json/;
\* every other request goes to one of the three catalog endpoints; no URL
\* found in fetched content is requested, and each of the three well-known
\* paths is requested at most once per scan.
C18_RequestsStayOnKnownUrls ==
    /\ \A i \in TargetIdx :
         requests[i].url \in {base_url} \cup {UnderBase(n) : n \in WellKnownNames}
    /\ \A i \in DOMAIN requests \ TargetIdx :
         requests[i].to = "catalog" /\ requests[i].endpoint \in CatalogEndpoints
    /\ \A i, j \in TargetIdx :
         (requests[i].url = requests[j].url /\ requests[i].url # base_url) => i = j

(***************************************************************************)
(* Properties of the detectors (Spec).                                     *)
(***************************************************************************)
\* a generator content that begins with "WordPress " and has a remainder
Remainder(content) ==
    Trim(SubSeq(content, Len(WordPressPrefix) + 1, Len(content)))
VersionedTag(c) ==
    c.some /\ StartsWith(c.v, WordPressPrefix) /\ Remainder(c.v) # <<>>
FirstVersionedTag(generators) ==
    LET hits == {i \in DOMAIN generators : VersionedTag(generators[i])}
    IN  IF hits = {} THEN None
        ELSE Some(Remainder(generators[CHOOSE i \in hits : \A j \in hits : i <= j].v))

\* the homepage was fetched and only the meta heuristic has run
AfterMeta == Len(requests) = 1 /\ pc \in {"feed", "core_latest"}

\* C19: when the homepage has a generator meta tag whose content begins
\* with "WordPress " and whose trimmed remainder is non-empty, the meta step
\* yields the remainder of the first such tag, whatever generator tags
\* precede it; it yields nothing only when no such tag exists.
C19_MetaYieldsFirstVersionedTag ==
    AfterMeta =>
        scan.wordpress_version = FirstVersionedTag(scan.document.generators)

(***************************************************************************)
(* Properties of detect_wp_from_cookies (SpecCookies).                     *)
(***************************************************************************)
\* the name of the cookie a Set-Cookie header sets: the text before the
\* first '='
NameOf(header) ==
    LET eqs == {i \in DOMAIN header : header[i] = "="}
    IN  IF eqs = {} THEN header
        ELSE SubSeq(header, 1, (CHOOSE i \in eqs : \A j \in eqs : i <= j) - 1)

WordPressCookieName(name) ==
    \/ StartsWith(name, <<"w", "o", "r", "d", "p", "r", "e", "s", "s", "_">>)
    \/ StartsWith(name, <<"w", "p", "-">>)
    \/ name = <<"w", "p", "_", "l", "a", "n", "g">>

\* C20: cookie detection confirms WordPress exactly when the homepage
\* response sets a cookie whose name begins with wordpress_ or wp-, or is
\* exactly wp_lang; a response whose cookie names match none of these,
\* whatever the cookie values or attributes contain, does not confirm.
C20_CookiesConfirmExactlyOnNames ==
    pc = "cookies_detected" =>
        (out.found <=>
            /\ args.resp.send
            /\ \E i \in DOMAIN args.resp.headers :
                 WordPressCookieName(NameOf(args.resp.headers[i])))

(***************************************************************************)
(* Properties that join the scan and the analysis (Spec).                  *)
(***************************************************************************)
\* C21: in every ScanResult returned by scan(), wordpress_version being
\* Some implies wordpress_detected; for the Analysis computed from it,
\* is_wordpress() equals wordpress_detected and the core status is
\* NotDetected exactly when wordpress_detected is false.
C21_VersionImpliesDetected ==
    /\ ScanOk => (Scanned.wordpress_version.some => Scanned.wordpress_detected)
    /\ Analyzed =>
         /\ is_wordpress(analysis) = Scanned.wordpress_detected
         /\ analysis.wordpress.status = "NotDetected"
              <=> ~Scanned.wordpress_detected

\* presence confirmed by the cookie probe alone, no version found
C21_Witness ==
    /\ Analyzed
    /\ ~Scanned.wordpress_version.some
    /\ Scanned.wordpress_detected
    /\ Len(SelectSeq(requests, LAMBDA q : q.to = "target")) = 5
    /\ is_wordpress(analysis)
    /\ analysis.wordpress.status = "Unknown"

(***************************************************************************)
(* Properties of masked versions (SpecMasked).                             *)
(***************************************************************************)
Masked(v) == StartsWith(v, <<"(", "t", "i", "m", "e", "s", "t", "a", "m", "p", ":">>) \/ StartsWith(v, <<"(", "h", "a", "s", "h", ":">>)

\* a plain dotted-numeric version without suffix
PlainNumeric(l) ==
    /\ l.some
    /\ \A i \in DOMAIN l.v : l.v[i] \in Digits \cup {"."}
    /\ \A g \in {CutAtDots(l.v, <<>>)[i] : i \in DOMAIN CutAtDots(l.v, <<>>)} :
         g # <<>>

\* C22: a theme or plugin whose installed version was masked by the
\* normalizer to "(timestamp:...)" or "(hash:...)" contributes an empty
\* numeric sequence and a suffix to compare_versions; whenever its latest
\* version is a plain dotted-numeric version it is classified Outdated and
\* counted by outdated_count(), whatever the timestamp or hash.
C22_MaskedVersionIsOutdated ==
    Analyzed =>
        LET theme == Scanned.theme.v
            plugin == Scanned.plugins[1]
        IN  /\ (theme.version.some /\ Masked(theme.version.v)) =>
                 /\ parse_version(theme.version.v)
                      = [parts |-> <<>>, has_suffix |-> TRUE]
                 /\ PlainNumeric(theme.latest_version) =>
                      /\ analysis.theme.status = "Outdated"
                      /\ outdated_count(analysis) >= 1
            /\ (plugin.version.some /\ Masked(plugin.version.v)) =>
                 /\ parse_version(plugin.version.v)
                      = [parts |-> <<>>, has_suffix |-> TRUE]
                 /\ PlainNumeric(plugin.latest_version) =>
                      /\ analysis.plugins[plugin.slug].status = "Outdated"
                      /\ outdated_count(analysis) = 2

\* a timestamp token against the lowest latest version there is
C22_Witness ==
    /\ Analyzed
    /\ args.token = <<"1", "7", "4", "8", "2", "7", "1", "7", "8", "4">>
    /\ Scanned.theme.v.version = Some(<<"(", "t", "i", "m", "e", "s", "t", "a", "m", "p", ":", "1", "7", "4", "8", "2", "7", "1", "7", "8", "4", ")">>)
    /\ args.latest = Some(<<"0", ".", "0">>)
    /\ analysis.plugins["akismet"].status = "Outdated"
    /\ outdated_count(analysis) = 2

====
